---- MODULE Spec2Model ----
(***************************************************************************)
(* The signalling relay of web-share: the socket.io event handlers of      *)
(* src/server.js and of the earlier revision kept in src/unnamed/part_001  *)
(* (lines 1-169), which buffers 'signal' envelopes in pendingSignals.      *)
(*                                                                         *)
(* The two revisions are two programs.  Init picks one of them (variant)   *)
(* and every behaviour is a behaviour of that one program:                 *)
(*   "server"  - src/server.js: start-host, offer/answer/ice-candidate,    *)
(*               no mailbox;                                               *)
(*   "mailbox" - src/unnamed/part_001 lines 1-169: signal + pendingSignals.*)
(* The third revision (part_001 lines 171-370) is server.js with robotjs   *)
(* screen capture added; it keeps the same three Maps and is not modelled. *)
(*                                                                         *)
(* One action is one run of one handler (node runs a handler to its end    *)
(* before the next event is dispatched).  Room codes and socket ids are    *)
(* kept apart: no client names a room after a socket id.                   *)
(***************************************************************************)
EXTENDS Integers, Sequences, FiniteSets, TLC

\* ---------------------------------------------------------------- bounds
MaxConns == 3        \* socket connections ever accepted
MaxSignals == 2      \* 'signal' events ever sent (each carries a fresh payload)
MaxEvents == 6       \* inbound events (connections included) handled in one behaviour
MaxRetries == 3      \* largest maxRetries handed to startClient (its default)

Conns == 1..MaxConns
Rooms == {"R1", "R2"}            \* room codes the clients name
None == 0                        \* Map.get() of an absent key (undefined)
NoRoom == "none"                 \* connectedClients.get() of an absent key
Variants == {"server", "mailbox"}
MouseEvents == {"mouseMove", "mouseClick"}
RelayEvents == {"offer", "answer", "ice-candidate"}

VARIABLES
    variant,                  \* which revision of the relay runs
    status,                   \* per socket id: "idle" (not yet accepted) |
                              \*   "connected" | "disconnected"
    rooms,                    \* Map room -> host socket id (None: no entry)
    connectedClients,         \* Map socket id -> room (NoRoom: no entry)
    members,                  \* io.sockets.adapter.rooms: room -> set of ids
    clientsWithCursorAccess,  \* Map room -> Set of ids ({}: absent or empty)
    pendingSignals,           \* Map room -> array of {id, data} (<<>>: absent)
    sent,                     \* the emits of the last handler run, in order
    last,                     \* the handler that ran last: its event name ("input"
                              \*   for mouseMove/mouseClick, "relay" for
                              \*   offer/answer/ice-candidate)
    events,                   \* number of inbound events handled so far
    nextSerial,               \* payload of the next 'signal' event
    hostClaims,               \* history: successful host claims per room since
                              \*   the last departure of that room's host
    everApproved,             \* history: ids named by cursor-response approved
    drainCount,               \* history: per payload, times drained on join
    fresh,                    \* history: per room, payloads buffered by the
                              \*   room's current host during its tenure
    departed,                 \* history: ids that have left a room they were
                              \*   bound to, or disconnected
    forwarded,                \* history: per id, the signal envelopes (with
                              \*   their room) it received by immediate forward
    client                    \* one browser page running src/public/client.js
                              \*   as viewer: the state of its startClient call

relay == <<rooms, connectedClients, members, clientsWithCursorAccess, pendingSignals>>
history == <<hostClaims, everApproved, drainCount, fresh, departed, forwarded>>
vars == <<variant, status, rooms, connectedClients, members, clientsWithCursorAccess,
          pendingSignals, sent, last, events, nextSerial,
          hostClaims, everApproved, drainCount, fresh, departed, forwarded, client>>

\* ---------------------------------------------------------------- transport
\* One emit: the sockets it reaches, the event name and the payload
\* (id: the socket id the payload carries, None when it carries none;
\*  data: the opaque payload, 1/0 for approved true/false).
Msg(dst, ev, id, data) == [dst |-> dst, ev |-> ev, id |-> id, data |-> data]

\* An emit that reaches no socket puts nothing on any wire.
Emit(dst, ev, id, data) == IF dst = {} THEN <<>> ELSE <<Msg(dst, ev, id, data)>>

\* socket.emit(...): the calling socket.
ToSelf(c) == {c}

\* A broadcast that does not leave the caller out (io.to(room)).
ToRoom_WithSender(c, mem, r) == mem[r]

\* socket.to(room): every socket in the adapter room except the caller.
ToRoom(c, mem, r) == mem[r] \ {c}

\* An emit that goes to every connected socket instead of one.
ToId_Broadcast(id) == {d \in Conns : status[d] = "connected"}

\* io.to(id): the socket's own room, which exists while it is connected.
ToId(id) == IF id \in Conns /\ status[id] = "connected" THEN {id} ELSE {}

\* The socket ids a client can name: those the server has handed out.
Known == {c \in Conns : status[c] # "idle"}

\* The page before startClient is called (src/public/client.js:1-15).
ClientIdle ==
    [started |-> FALSE,        \* startClient has run past its early returns
     maxRetries |-> 0,         \* the argument of startClient
     retries |-> 0,            \* let retries = 0
     attempts |-> 0,           \* calls of tryConnect so far
     handlers |-> 0,           \* 'no-host' handlers registered on the socket
     timers |-> 0,             \* armed 30 s connection timeouts
     retryNoHost |-> 0,        \* pending setTimeout(tryConnect, 2000) set by
                               \*   a 'no-host' handler
     retryTimeout |-> 0,       \* the same, set by a connection timeout
     onConnect |-> FALSE,      \* socket.on("connect", tryConnect) registered
     isJoined |-> FALSE,       \* let isJoined
     peerConnection |-> "null",\* "null" | "new" | "connected"
     joins |-> 0,              \* 'join' events on their way to the relay
     noHost |-> 0,             \* 'no-host' replies on their way to the page
     bound |-> FALSE]          \* the relay has bound the page's socket to room

Init ==
    /\ variant \in Variants
    /\ status = [c \in Conns |-> "idle"]
    /\ rooms = [r \in Rooms |-> None]
    /\ connectedClients = [c \in Conns |-> NoRoom]
    /\ members = [r \in Rooms |-> {}]
    /\ clientsWithCursorAccess = [r \in Rooms |-> {}]
    /\ pendingSignals = [r \in Rooms |-> <<>>]
    /\ sent = <<>>
    /\ last = "listen"
    /\ events = 0
    /\ nextSerial = 1
    /\ hostClaims = [r \in Rooms |-> 0]
    /\ everApproved = [r \in Rooms |-> {}]
    /\ drainCount = [n \in 1..MaxSignals |-> 0]
    /\ fresh = [r \in Rooms |-> {}]
    /\ departed = {}
    /\ forwarded = [c \in Conns |-> {}]
    /\ client = ClientIdle

\* ---------------------------------------------------------------- helpers
\* A relay that never looks the room up before accepting a host.
RoomHasHost_Unchecked(r) == FALSE

\* A relay that takes every room code for a hosted room.
RoomHasHost_Assumed(r) == TRUE

\* rooms.has(room)
RoomHasHost(r) == rooms[r] # None

\* A join handler without the duplicate-join guard.
DuplicateJoin_Unchecked(c, r) == FALSE

\* connectedClients.get(socket.id) === room : the duplicate-join guard
DuplicateJoin(c, r) == connectedClients[c] = r

\* An input check that looks at the Registry binding only.
HasCursorAccess_BindingOnly(c, r) == connectedClients[c] = r

\* An input check that looks at the Authorization Set only.
HasCursorAccess_SetOnly(c, r) == c \in clientsWithCursorAccess[r]

\* clientRoom === room && clientsWithCursorAccess.get(room)?.has(socket.id)
HasCursorAccess(c, r) ==
    /\ connectedClients[c] = r
    /\ c \in clientsWithCursorAccess[r]

\* A relay that forwards as soon as the room has any member.
HasPeer_AnyMember(r) == Cardinality(members[r]) > 0

\* targetSocket && targetSocket.size > 1
HasPeer(r) == Cardinality(members[r]) > 1

\* A relay that drops the envelope it cannot forward.
Buffered_Dropped(r, c, n) == pendingSignals[r]

\* pendingSignals.get(room).push({ id: socket.id, data })
Buffered(r, c, n) == Append(pendingSignals[r], [id |-> c, data |-> n])

\* pendingSignals.get(room).forEach(signal => socket.emit('signal', signal))
RECURSIVE DrainEmits(_, _)
DrainEmits(c, q) ==
    IF q = <<>> THEN <<>>
    ELSE Emit(ToSelf(c), "signal", Head(q).id, Head(q).data) \o DrainEmits(c, Tail(q))

\* A drain that forgets pendingSignals.delete(room).
MailboxAfterDrain_Kept(r) == pendingSignals[r]

\* pendingSignals.delete(room) after the drain
MailboxAfterDrain(r) == <<>>

\* An approval that is answered but never recorded.
Granted_Forgotten(r, id) == clientsWithCursorAccess[r]

\* clientsWithCursorAccess.get(room).add(clientId)
Granted(r, id) == clientsWithCursorAccess[r] \cup {id}

\* A teardown that fires for whoever leaves a hosted room.
IsHost_AnyHost(c, r) == rooms[r] # None

\* rooms.get(room) === socket.id
IsHost(c, r) == rooms[r] = c

\* An echo that always reports an approval.
Decision_AlwaysApproved(approved) == 1

\* io.to(clientId).emit('cursor-response', { approved })
Decision(approved) == IF approved THEN 1 ELSE 0

\* The room a disconnecting socket is cleaned up for: connectedClients.get(id)
DisconnectRoom(c) == connectedClients[c]

\* ---------------------------------------------------------------- history
\* A room's tenure ends when its Directory entry changes.
Tenure(newRooms, buf) ==
    [r \in Rooms |-> IF newRooms[r] # rooms[r] THEN {} ELSE fresh[r] \cup buf[r]]
NoBuf == [r \in Rooms |-> {}]

Handled(kind, out) ==
    /\ events < MaxEvents
    /\ events' = events + 1
    /\ last' = kind
    /\ sent' = out
    /\ UNCHANGED <<variant, client>>

\* ---------------------------------------------------------------- handlers
\* io.on('connection'): the server accepts a socket and registers its handlers.
\* Socket ids are fresh; the model hands them out in order of acceptance.
Connect(c) ==
    /\ status[c] = "idle"
    /\ \A d \in Conns : d < c => status[d] # "idle"
    /\ status' = [status EXCEPT ![c] = "connected"]
    /\ Handled("connection", <<>>)
    /\ UNCHANGED <<relay, history, nextSerial>>

\* socket.on('start-host') - src/server.js only
StartHost(c, r) ==
    /\ variant = "server"
    /\ status[c] = "connected"
    /\ IF RoomHasHost(r)
       THEN /\ Handled("start-host",
                       Emit(ToSelf(c), "error", None, 0))
            /\ UNCHANGED <<relay, history, status, nextSerial>>
       ELSE /\ rooms' = [rooms EXCEPT ![r] = c]
            /\ connectedClients' = [connectedClients EXCEPT ![c] = r]
            /\ members' = [members EXCEPT ![r] = @ \cup {c}]
            /\ Handled("start-host", <<>>)
            /\ hostClaims' = [hostClaims EXCEPT ![r] = @ + 1]
            /\ fresh' = Tenure(rooms', NoBuf)
            /\ UNCHANGED <<clientsWithCursorAccess, pendingSignals, status,
                           nextSerial, everApproved, drainCount, departed, forwarded>>

\* socket.on('join')
Join(c, r, isHost) ==
    /\ status[c] = "connected"
    /\ LET ev == "join" IN
       IF DuplicateJoin(c, r)
       THEN /\ Handled(ev, <<>>)
            /\ UNCHANGED <<relay, history, status, nextSerial>>
       ELSE IF isHost /\ RoomHasHost(r)
       THEN /\ Handled(ev, Emit(ToSelf(c), "error", None, 0))
            /\ UNCHANGED <<relay, history, status, nextSerial>>
       ELSE IF ~isHost /\ ~RoomHasHost(r)
       THEN /\ Handled(ev, Emit(ToSelf(c), "no-host", None, 0))
            /\ UNCHANGED <<relay, history, status, nextSerial>>
       ELSE LET drain == variant = "mailbox" /\ ~isHost /\ pendingSignals[r] # <<>> IN
            /\ rooms' = IF isHost THEN [rooms EXCEPT ![r] = c] ELSE rooms
            /\ members' = [members EXCEPT ![r] = @ \cup {c}]
            /\ connectedClients' = [connectedClients EXCEPT ![c] = r]
            /\ pendingSignals' = IF drain
                                 THEN [pendingSignals EXCEPT ![r] = MailboxAfterDrain(r)]
                                 ELSE pendingSignals
            /\ Handled(ev, Emit(ToRoom(c, members', r), "user-joined", c, 0)
                           \o (IF drain THEN DrainEmits(c, pendingSignals[r]) ELSE <<>>))
            /\ hostClaims' = IF isHost THEN [hostClaims EXCEPT ![r] = @ + 1] ELSE hostClaims
            /\ drainCount' = IF drain
                             THEN [n \in 1..MaxSignals |->
                                     drainCount[n] + Cardinality(
                                        {i \in 1..Len(pendingSignals[r]) :
                                            pendingSignals[r][i].data = n})]
                             ELSE drainCount
            /\ fresh' = Tenure(rooms', NoBuf)
            /\ UNCHANGED <<clientsWithCursorAccess, status, nextSerial, everApproved,
                           departed, forwarded>>

\* socket.on('signal') - src/unnamed/part_001 only
Signal(c, r) ==
    /\ variant = "mailbox"
    /\ status[c] = "connected"
    /\ nextSerial <= MaxSignals
    /\ nextSerial' = nextSerial + 1
    /\ LET ev == "signal" IN
       IF HasPeer(r)
       THEN /\ Handled(ev, Emit(ToRoom(c, members, r), "signal", c, nextSerial))
            /\ forwarded' = [d \in Conns |->
                               IF d \in ToRoom(c, members, r)
                               THEN forwarded[d] \cup
                                       {[room |-> r, id |-> c, data |-> nextSerial]}
                               ELSE forwarded[d]]
            /\ UNCHANGED <<relay, hostClaims, everApproved, drainCount, fresh,
                           departed, status>>
       ELSE /\ pendingSignals' = [pendingSignals EXCEPT ![r] = Buffered(r, c, nextSerial)]
            /\ Handled(ev, <<>>)
            /\ fresh' = Tenure(rooms, [NoBuf EXCEPT ![r] =
                                         IF rooms[r] = c THEN {nextSerial} ELSE {}])
            /\ UNCHANGED <<rooms, connectedClients, members, clientsWithCursorAccess,
                           status, hostClaims, everApproved, drainCount,
                           departed, forwarded>>

\* socket.on('cursor-request')
CursorRequest(c, r) ==
    /\ status[c] = "connected"
    /\ Handled("cursor-request",
               IF rooms[r] # None
               THEN Emit(ToId(rooms[r]), "cursor-request", c, 0)
               ELSE Emit(ToSelf(c), "no-host", None, 0))
    /\ UNCHANGED <<relay, history, status, nextSerial>>

\* socket.on('cursor-response')
CursorResponse(c, r, clientId, approved) ==
    /\ status[c] = "connected"
    /\ clientId \in Known
    /\ clientsWithCursorAccess' =
          IF approved THEN [clientsWithCursorAccess EXCEPT ![r] = Granted(r, clientId)]
          ELSE clientsWithCursorAccess
    /\ Handled("cursor-response",
               Emit(ToId(clientId), "cursor-response", None, Decision(approved)))
    /\ everApproved' = IF approved THEN [everApproved EXCEPT ![r] = @ \cup {clientId}]
                       ELSE everApproved
    /\ UNCHANGED <<rooms, connectedClients, members, pendingSignals, status,
                   nextSerial, hostClaims, drainCount, fresh, departed, forwarded>>

\* socket.on('mouseMove') / socket.on('mouseClick')
Mouse(c, r, kind) ==
    /\ status[c] = "connected"
    /\ Handled("input",
               IF HasCursorAccess(c, r)
               THEN IF variant = "server"
                    THEN Emit(ToRoom(c, members, r), kind, c, 0)
                         \o Emit(ToId(rooms[r]), kind, c, 0)
                    ELSE Emit(ToRoom(c, members, r), kind, None, 0)
               ELSE <<>>)
    /\ UNCHANGED <<relay, history, status, nextSerial>>

\* socket.on('offer') / socket.on('answer') / socket.on('ice-candidate')
\* - src/server.js only
Relay(c, r, kind) ==
    /\ variant = "server"
    /\ status[c] = "connected"
    /\ Handled("relay", Emit(ToRoom(c, members, r), kind, None, 0))
    /\ UNCHANGED <<relay, history, status, nextSerial>>

\* What leave and disconnect do once the socket is out of the adapter room
\* `mem` and its connectedClients entry is deleted.
Departure(c, r, mem) ==
    IF IsHost(c, r)
    THEN /\ rooms' = [rooms EXCEPT ![r] = None]
         /\ pendingSignals' = [pendingSignals EXCEPT ![r] = <<>>]
         /\ clientsWithCursorAccess' = [clientsWithCursorAccess EXCEPT ![r] = {}]
         /\ sent' = IF variant = "server"
                    THEN Emit(ToRoom(c, mem, r), "host-stopped", None, 0)
                    ELSE Emit(ToRoom(c, mem, r), "user-disconnected", c, 0)
    ELSE IF c \in clientsWithCursorAccess[r]
    THEN /\ clientsWithCursorAccess' = [clientsWithCursorAccess EXCEPT ![r] = @ \ {c}]
         /\ sent' = IF variant = "server"
                    THEN Emit(ToRoom(c, mem, r), "user-disconnected", c, 0)
                    ELSE <<>>
         /\ UNCHANGED <<rooms, pendingSignals>>
    ELSE /\ sent' = <<>>
         /\ UNCHANGED <<rooms, pendingSignals, clientsWithCursorAccess>>

\* socket.on('leave')
Leave(c, r) ==
    /\ status[c] = "connected"
    /\ events < MaxEvents
    /\ events' = events + 1
    /\ last' = "leave"
    /\ members' = [members EXCEPT ![r] = @ \ {c}]
    /\ connectedClients' = [connectedClients EXCEPT ![c] = NoRoom]
    /\ Departure(c, r, members')
    /\ hostClaims' = IF rooms[r] = c THEN [hostClaims EXCEPT ![r] = 0] ELSE hostClaims
    /\ fresh' = Tenure(rooms', NoBuf)
    /\ departed' = IF connectedClients[c] # NoRoom THEN departed \cup {c} ELSE departed
    /\ UNCHANGED <<variant, status, nextSerial, everApproved, drainCount, forwarded, client>>

\* socket.on('disconnect'): socket.io has taken the socket out of every
\* adapter room before the handler runs.
Disconnect(c) ==
    /\ status[c] = "connected"
    /\ events < MaxEvents
    /\ events' = events + 1
    /\ last' = "disconnect"
    /\ status' = [status EXCEPT ![c] = "disconnected"]
    /\ members' = [r \in Rooms |-> members[r] \ {c}]
    /\ IF DisconnectRoom(c) # NoRoom
       THEN /\ connectedClients' = [connectedClients EXCEPT ![c] = NoRoom]
            /\ Departure(c, DisconnectRoom(c), members')
       ELSE /\ sent' = <<>>
            /\ UNCHANGED <<rooms, connectedClients, pendingSignals, clientsWithCursorAccess>>
    /\ hostClaims' = [r \in Rooms |-> IF rooms[r] = c THEN 0 ELSE hostClaims[r]]
    /\ fresh' = Tenure(rooms', NoBuf)
    /\ departed' = departed \cup {c}
    /\ UNCHANGED <<variant, nextSerial, everApproved, drainCount, forwarded, client>>

Next ==
    \/ \E c \in Conns : Connect(c)
    \/ \E c \in Conns, r \in Rooms : StartHost(c, r)
    \/ \E c \in Conns, r \in Rooms, isHost \in BOOLEAN : Join(c, r, isHost)
    \/ \E c \in Conns, r \in Rooms : Signal(c, r)
    \/ \E c \in Conns, r \in Rooms : CursorRequest(c, r)
    \/ \E c \in Conns, r \in Rooms, clientId \in Conns, approved \in BOOLEAN :
          CursorResponse(c, r, clientId, approved)
    \/ \E c \in Conns, r \in Rooms, kind \in MouseEvents : Mouse(c, r, kind)
    \/ \E c \in Conns, r \in Rooms, kind \in RelayEvents : Relay(c, r, kind)
    \/ \E c \in Conns, r \in Rooms : Leave(c, r)
    \/ \E c \in Conns : Disconnect(c)

Spec == Init /\ [][Next]_vars

\* ---------------------------------------------------------------- resumed runs
\* The relay after connection 1 hosted R1 in the mailbox revision,
\* connection 2 joined it as viewer, and connection 1 left R1 again: the
\* room has no host and the viewer is still in it.  Spec reaches this state
\* with its fifth event.
ResumePoint ==
    /\ variant = "mailbox"
    /\ status = [c \in Conns |-> IF c <= 2 THEN "connected" ELSE "idle"]
    /\ rooms = [r \in Rooms |-> None]
    /\ connectedClients = [c \in Conns |-> IF c = 2 THEN "R1" ELSE NoRoom]
    /\ members = [r \in Rooms |-> IF r = "R1" THEN {2} ELSE {}]
    /\ clientsWithCursorAccess = [r \in Rooms |-> {}]
    /\ pendingSignals = [r \in Rooms |-> <<>>]
    /\ sent = <<Msg({2}, "user-disconnected", 1, 0)>>
    /\ last = "leave"
    /\ nextSerial = 1
    /\ hostClaims = [r \in Rooms |-> 0]
    /\ everApproved = [r \in Rooms |-> {}]
    /\ drainCount = [n \in 1..MaxSignals |-> 0]
    /\ fresh = [r \in Rooms |-> {}]
    /\ departed = {1}
    /\ forwarded = [c \in Conns |-> {}]
    /\ client = ClientIdle

\* Behaviours that start either at construction or at ResumePoint; a
\* resumed behaviour handles MaxEvents - 1 further events.
InitResumed == Init \/ (ResumePoint /\ events = 1)

SpecResumed == InitResumed /\ [][Next]_vars

\* The relay of src/server.js after connection 1 hosted R1, connections 2
\* and 3 joined it as viewers, and connection 1 left R1 again: the room has
\* no host and two viewers are still in it.  Spec reaches this state with
\* its seventh event once MaxEvents allows seven.
TwoViewersLeft ==
    /\ variant = "server"
    /\ status = [c \in Conns |-> IF c <= 3 THEN "connected" ELSE "idle"]
    /\ rooms = [r \in Rooms |-> None]
    /\ connectedClients = [c \in Conns |-> IF c \in {2, 3} THEN "R1" ELSE NoRoom]
    /\ members = [r \in Rooms |-> IF r = "R1" THEN {2, 3} ELSE {}]
    /\ clientsWithCursorAccess = [r \in Rooms |-> {}]
    /\ pendingSignals = [r \in Rooms |-> <<>>]
    /\ sent = <<Msg({2, 3}, "host-stopped", None, 0)>>
    /\ last = "leave"
    /\ nextSerial = 1
    /\ hostClaims = [r \in Rooms |-> 0]
    /\ everApproved = [r \in Rooms |-> {}]
    /\ drainCount = [n \in 1..MaxSignals |-> 0]
    /\ fresh = [r \in Rooms |-> {}]
    /\ departed = {1}
    /\ forwarded = [c \in Conns |-> {}]
    /\ client = ClientIdle

\* Behaviours that start either at construction or at TwoViewersLeft; a
\* resumed behaviour handles MaxEvents - 3 further events.
InitTwoViewers == Init \/ (TwoViewersLeft /\ events = 3)

SpecTwoViewers == InitTwoViewers /\ [][Next]_vars

\* ---------------------------------------------------------------- browser client
\* startClient of src/public/client.js, run by one page whose socket talks
\* to the relay of src/unnamed/part_001 (the revision that answers 'join'
\* and 'signal').  The relay's side is reduced to its reply to the page's
\* 'join'; timers fire in any order.
MaxAttempts == MaxRetries + 3    \* tryConnect runs followed in one behaviour

\* retries < maxRetries (client.js:372 and 424) with every retry allowed
CanRetry_Always(cl) == TRUE

\* retries < maxRetries (client.js:372 and 424)
CanRetry(cl) == cl.retries < cl.maxRetries

\* function tryConnect (client.js:330-431), run to its end; pcOk is whether
\* new RTCPeerConnection succeeded (createPeerConnection returns null if not).
tryConnect(cl, pcOk) ==
    IF ~pcOk
    THEN [cl EXCEPT !.attempts = @ + 1, !.peerConnection = "null"]
    ELSE [cl EXCEPT !.attempts = @ + 1,
                    !.peerConnection = "new",
                    !.handlers = @ + 1,
                    !.joins = IF cl.isJoined THEN @ ELSE @ + 1,
                    !.isJoined = TRUE,
                    !.timers = @ + 1]

\* if (retries < maxRetries) { retries++; setTimeout(tryConnect, 2000); }
\* as written in the 'no-host' handler (client.js:372-375)
RetryOnNoHost(cl) ==
    IF CanRetry(cl)
    THEN [cl EXCEPT !.retries = @ + 1, !.retryNoHost = @ + 1]
    ELSE cl

\* One 'no-host' event runs every registered handler in turn; they share
\* the one retries counter.
RECURSIVE RunNoHostHandlers(_, _)
RunNoHostHandlers(cl, k) ==
    IF k = 0 THEN cl ELSE RunNoHostHandlers(RetryOnNoHost(cl), k - 1)

ClientStep == UNCHANGED <<variant, status, relay, sent, last, events, nextSerial, history>>

\* startClient(maxRetries) with a room code entered and WebRTC present
\* (client.js:311-442): the first tryConnect runs at once on a connected
\* socket, and on the socket's 'connect' event otherwise.
StartClient(maxRetries, connected, pcOk) ==
    /\ ~client.started
    /\ client' = IF connected
                 THEN tryConnect([client EXCEPT !.started = TRUE,
                                                !.maxRetries = maxRetries], pcOk)
                 ELSE [client EXCEPT !.started = TRUE, !.maxRetries = maxRetries,
                                     !.onConnect = TRUE]
    /\ ClientStep

\* The socket's 'connect' event, on every connection and reconnection
\* (client.js:436-439).
SocketConnect(pcOk) ==
    /\ client.onConnect
    /\ client.attempts < MaxAttempts
    /\ client' = tryConnect(client, pcOk)
    /\ ClientStep

\* setTimeout(tryConnect, 2000) set by a 'no-host' handler comes due.
RetryAfterNoHost(pcOk) ==
    /\ client.retryNoHost > 0
    /\ client.attempts < MaxAttempts
    /\ client' = tryConnect([client EXCEPT !.retryNoHost = @ - 1], pcOk)
    /\ ClientStep

\* setTimeout(tryConnect, 2000) set by a connection timeout comes due.
RetryAfterTimeout(pcOk) ==
    /\ client.retryTimeout > 0
    /\ client.attempts < MaxAttempts
    /\ client' = tryConnect([client EXCEPT !.retryTimeout = @ - 1], pcOk)
    /\ ClientStep

\* The relay handles the page's 'join' {room, isHost: false}
\* (part_001:36-69): an error if the socket is already bound to the room,
\* 'no-host' if the room has no host, and the binding otherwise.
RelayJoin(hostPresent) ==
    /\ client.joins > 0
    /\ client' = IF client.bound
                 THEN [client EXCEPT !.joins = @ - 1]
                 ELSE IF hostPresent
                 THEN [client EXCEPT !.joins = @ - 1, !.bound = TRUE]
                 ELSE [client EXCEPT !.joins = @ - 1, !.noHost = @ + 1]
    /\ ClientStep

\* socket.on("no-host") (client.js:369-379), once per registered handler
NoHost ==
    /\ client.noHost > 0
    /\ client' = RunNoHostHandlers([client EXCEPT !.noHost = @ - 1], client.handlers)
    /\ ClientStep

\* socket.on("user-disconnected") (client.js:381-391): the host left the room
UserDisconnected ==
    /\ client.bound
    /\ client.handlers > 0
    /\ client.isJoined
    /\ client' = [client EXCEPT !.isJoined = FALSE]
    /\ ClientStep

\* peerConnection.connectionState becomes "connected" after the exchange
\* with the host
PeerConnected ==
    /\ client.bound
    /\ client.peerConnection = "new"
    /\ client' = [client EXCEPT !.peerConnection = "connected"]
    /\ ClientStep

\* The 30 s timeout armed by one tryConnect (client.js:413-430)
Timeout ==
    /\ client.timers > 0
    /\ client' =
         IF client.peerConnection # "connected"
         THEN LET closed == [client EXCEPT !.timers = @ - 1,
                                           !.peerConnection = "null",
                                           !.isJoined = FALSE]
              IN  IF CanRetry(closed)
                  THEN [closed EXCEPT !.retries = @ + 1, !.retryTimeout = @ + 1]
                  ELSE closed
         ELSE [client EXCEPT !.timers = @ - 1]
    /\ ClientStep

NextClient ==
    \/ \E maxRetries \in 0..MaxRetries, connected \in BOOLEAN, pcOk \in BOOLEAN :
          StartClient(maxRetries, connected, pcOk)
    \/ \E pcOk \in BOOLEAN : SocketConnect(pcOk)
    \/ \E pcOk \in BOOLEAN : RetryAfterNoHost(pcOk)
    \/ \E pcOk \in BOOLEAN : RetryAfterTimeout(pcOk)
    \/ \E hostPresent \in BOOLEAN : RelayJoin(hostPresent)
    \/ NoHost
    \/ UserDisconnected
    \/ PeerConnected
    \/ Timeout

InitClient == Init /\ variant = "mailbox"

SpecClient == InitClient /\ [][NextClient]_vars

\* ================================================================ claims
ErrorTo(c) == <<Msg({c}, "error", None, 0)>>
SignalsOf(out) == SelectSeq(out, LAMBDA m : m.ev = "signal")

\* ---------------------------------------------------------------- C1
\* C1 as stated: while a room has had a successful host claim and its host
\* has not departed, every host claim (join with isHost=true, or start-host)
\* by another connection fails and is answered with the error reply
\* 'Room already has a host'.
C1_EveryOtherClaimantGetsError ==
    [][\A c \in Conns, r \in Rooms :
         (hostClaims[r] >= 1 /\ c # rooms[r] /\ (Join(c, r, TRUE) \/ StartHost(c, r)))
         => (hostClaims'[r] <= 1 /\ sent' = ErrorTo(c))]_vars

\* C1 amended: at most one host claim per room succeeds between host
\* departures; a rejected claimant receives the error reply, except a join
\* from a connection whose Registry binding is already that room, which is
\* ignored without a reply.  A failed claim changes no relay state.
C1_AtMostOneHostClaim ==
    [][\A c \in Conns, r \in Rooms :
         (hostClaims[r] >= 1 /\ c # rooms[r] /\ (Join(c, r, TRUE) \/ StartHost(c, r)))
         => /\ hostClaims'[r] <= 1
            /\ rooms' = rooms /\ connectedClients' = connectedClients /\ members' = members
            /\ sent' = IF Join(c, r, TRUE) /\ connectedClients[c] = r
                       THEN <<>> ELSE ErrorTo(c)]_vars

\* A second connection's host claim has just been rejected with the error.
C1_Witness ==
    /\ last \in {"join", "start-host"}
    /\ \E c \in Conns, r \in Rooms :
          /\ sent = ErrorTo(c)
          /\ rooms[r] \notin {None, c}
          /\ hostClaims[r] = 1

\* ---------------------------------------------------------------- C2
\* C2: the Directory holds no host entry for a room once the connection it
\* names is gone, so a new connection's join(room, isHost=true) succeeds.
C2_NoHostEntryForGoneConnection ==
    \A r \in Rooms : rooms[r] # None => status[rooms[r]] = "connected"

\* ---------------------------------------------------------------- C3
\* C3: a connection identifier is a member of at most one room.
C3_AtMostOneRoom ==
    \A c \in Conns : Cardinality({r \in Rooms : c \in members[r]}) <= 1

\* ---------------------------------------------------------------- C4
\* C4: every identifier in a room's Authorization Set is a live connection
\* bound to that room, a member of it, and not its host.
C4_AuthorizedAreViewers ==
    \A r \in Rooms : \A c \in clientsWithCursorAccess[r] :
        /\ status[c] = "connected"
        /\ connectedClients[c] = r
        /\ c \in members[r]
        /\ rooms[r] # c

\* ---------------------------------------------------------------- C5
\* C5: a cursor-response whose sender is not the current host of the named
\* room leaves the Authorization Table unchanged and sends nothing.
C5_NonHostResponseIgnored ==
    [][\A c \in Conns, r \in Rooms, id \in Conns, approved \in BOOLEAN :
         (rooms[r] # c /\ CursorResponse(c, r, id, approved))
         => (clientsWithCursorAccess' = clientsWithCursorAccess /\ sent' = <<>>)]_vars

\* ---------------------------------------------------------------- C6
\* C6: a mouseMove or mouseClick from a connection that was never named in
\* an approved cursor-response for the named room is forwarded to nobody.
C6_UnapprovedInputDropped ==
    [][\A c \in Conns, r \in Rooms, kind \in MouseEvents :
         (c \notin everApproved[r] /\ Mouse(c, r, kind)) => sent' = <<>>]_vars

\* An input event has just been handled and dropped while a hosted room has
\* a viewer and no connection was ever approved for any room.
C6_Witness ==
    /\ last = "input"
    /\ sent = <<>>
    /\ \A r \in Rooms : everApproved[r] = {}
    /\ \E r \in Rooms : rooms[r] # None /\ members[r] \ {rooms[r]} # {}

\* ---------------------------------------------------------------- C7
\* C7: after a viewer's leave or disconnect its identifier is not in the
\* Authorization Set of the room it was bound to.
C7_DepartedViewerRevoked ==
    [][\A c \in Conns, r \in Rooms :
         (/\ connectedClients[c] = r
          /\ rooms[r] # c
          /\ (Disconnect(c) \/ \E named \in Rooms : Leave(c, named)))
         => c \notin clientsWithCursorAccess'[r]]_vars

C9_DrainedEnvelopesAreFresh ==
    [][\A c \in Conns, r \in Rooms :
         (connectedClients[c] # r /\ rooms[r] # None /\ Join(c, r, FALSE))
         => \A j \in 1..Len(sent') :
               sent'[j].ev = "signal"
               => (sent'[j].id = rooms[r] /\ sent'[j].data \in fresh[r])]_vars

\* ---------------------------------------------------------------- C10
\* C10: the step in which a room's host leaves or disconnects removes the
\* room's Directory entry and empties its Mailbox and Authorization Set.
C10_HostDepartureTearsDown ==
    [][\A c \in Conns, r \in Rooms :
         (rooms[r] = c /\ (Leave(c, r) \/ Disconnect(c)))
         => /\ rooms'[r] = None
            /\ pendingSignals'[r] = <<>>
            /\ clientsWithCursorAccess'[r] = {}]_vars

\* ---------------------------------------------------------------- C11
\* C11: a room code with no host and no members has an empty Mailbox and an
\* empty Authorization Set.
C11_EmptyRoomHasNoDerivedState ==
    \A r \in Rooms :
        (rooms[r] = None /\ members[r] = {})
        => (pendingSignals[r] = <<>> /\ clientsWithCursorAccess[r] = {})

\* ---------------------------------------------------------------- C12
\* C12: a join with isHost=true on a room that already has a host changes
\* no relay state (Directory, Registry, membership, Mailbox, Authorization
\* Table) and broadcasts no user-joined: the only message it may emit is the
\* error reply to the caller.
C12_RejectedHostJoinChangesNothing ==
    [][\A c \in Conns, r \in Rooms :
         (rooms[r] # None /\ Join(c, r, TRUE))
         => /\ rooms' = rooms
            /\ connectedClients' = connectedClients
            /\ members' = members
            /\ pendingSignals' = pendingSignals
            /\ clientsWithCursorAccess' = clientsWithCursorAccess
            /\ sent' \in {<<>>, ErrorTo(c)}]_vars

\* An unbound connection outside the room has just been refused as host:
\* the Directory still names the first host and the caller is still unbound.
C12_Witness ==
    /\ last = "join"
    /\ \E c \in Conns, r \in Rooms :
          /\ sent = ErrorTo(c)
          /\ rooms[r] \notin {None, c}
          /\ status[rooms[r]] = "connected"
          /\ connectedClients[c] = NoRoom
          /\ \A q \in Rooms : c \notin members[q]

\* ---------------------------------------------------------------- C13
NoHostTo(c) == <<Msg({c}, "no-host", None, 0)>>

\* C13 as stated: a viewer join on a room with no host replies no-host to
\* the caller only and changes no relay state.
C13_ViewerJoinWithoutHostRepliesNoHost ==
    [][\A c \in Conns, r \in Rooms :
         (rooms[r] = None /\ Join(c, r, FALSE))
         => (sent' = NoHostTo(c) /\ UNCHANGED relay)]_vars

\* C13 amended: a viewer join on a room with no host changes no relay state
\* and broadcasts nothing; the caller receives no-host, unless its Registry
\* binding is already that room, in which case the join is ignored without a
\* reply.
C13_ViewerJoinWithoutHostCreatesNothing ==
    [][\A c \in Conns, r \in Rooms :
         (rooms[r] = None /\ Join(c, r, FALSE))
         => /\ UNCHANGED relay
            /\ sent' = IF connectedClients[c] = r THEN <<>> ELSE NoHostTo(c)]_vars

\* A viewer has just been answered no-host and no room has any state.
C13_Witness ==
    /\ last = "join"
    /\ \E c \in Conns : sent = NoHostTo(c) /\ connectedClients[c] = NoRoom
    /\ \A r \in Rooms : rooms[r] = None /\ members[r] = {}

\* ---------------------------------------------------------------- C14
\* C14: a join from a connection that is already bound to a room, the same
\* or another one, changes no relay state and emits nothing.
C14_JoinWhileJoinedIgnored ==
    [][\A c \in Conns, r \in Rooms, isHost \in BOOLEAN :
         (connectedClients[c] # NoRoom /\ Join(c, r, isHost))
         => (UNCHANGED relay /\ sent' = <<>>)]_vars

\* ---------------------------------------------------------------- C15
\* C15: a signal for a room with at least two members is forwarded at once
\* to every member other than the sender and is not buffered; a signal for a
\* room with fewer than two members is delivered to nobody and appended to
\* the end of that room's Mailbox.
C15_SignalForwardedOrBuffered ==
    [][\A c \in Conns, r \in Rooms :
         Signal(c, r)
         => IF Cardinality(members[r]) >= 2
            THEN /\ sent' = <<Msg(members[r] \ {c}, "signal", c, nextSerial)>>
                 /\ pendingSignals' = pendingSignals
            ELSE /\ sent' = <<>>
                 /\ pendingSignals' =
                       [pendingSignals EXCEPT
                          ![r] = Append(@, [id |-> c, data |-> nextSerial])]]_vars

\* A signal has just been forwarded in a two-member room while an earlier
\* signal for the other room sits buffered.
C15_Witness ==
    /\ last = "signal"
    /\ \E c \in Conns, r \in Rooms :
          /\ Cardinality(members[r]) >= 2
          /\ sent = <<Msg(members[r] \ {c}, "signal", c, nextSerial - 1)>>
          /\ pendingSignals[r] = <<>>
    /\ \E q \in Rooms : Len(pendingSignals[q]) = 1

\* ---------------------------------------------------------------- C16
\* C16: an input event is forwarded to every other member of the named room
\* exactly when the sender is in that room's Authorization Set and its
\* Registry binding equals that room; otherwise nothing is sent to anyone.
\* Either way no relay state changes.
C16_InputForwardedIffAuthorizedAndBound ==
    [][\A c \in Conns, r \in Rooms, kind \in MouseEvents :
         Mouse(c, r, kind)
         => /\ UNCHANGED relay
            /\ IF c \in clientsWithCursorAccess[r] /\ connectedClients[c] = r
               THEN /\ \A d \in members[r] \ {c} :
                          \E i \in 1..Len(sent') :
                             sent'[i].ev = kind /\ d \in sent'[i].dst
                    /\ \A i \in 1..Len(sent') : sent'[i].ev = kind
               ELSE sent' = <<>>]_vars

\* An approved, bound viewer's input has just reached the host.
C16_Witness ==
    /\ last = "input"
    /\ \E c \in Conns, r \in Rooms, kind \in MouseEvents :
          /\ c \in clientsWithCursorAccess[r]
          /\ connectedClients[c] = r
          /\ rooms[r] \notin {None, c}
          /\ \E i \in 1..Len(sent) : sent[i].ev = kind /\ rooms[r] \in sent[i].dst

\* ---------------------------------------------------------------- C17
Receives(out, d, ev, id) ==
    \E i \in 1..Len(out) : out[i].ev = ev /\ out[i].id = id /\ d \in out[i].dst
ReceivesInput(out, d, kind) ==
    \E i \in 1..Len(out) : out[i].ev = kind /\ d \in out[i].dst

C18_CursorRequestReachesHostOnly ==
    [][\A c \in Conns, r \in Rooms :
         CursorRequest(c, r)
         => /\ UNCHANGED relay
            /\ IF rooms[r] # None
               THEN /\ sent' = <<Msg({rooms[r]}, "cursor-request", c, 0)>>
                    /\ c # rooms[r]
               ELSE sent' = NoHostTo(c)]_vars

\* C18 amended: a cursor-request changes no relay state. For a room without
\* a Directory entry it delivers no-host to the requester only. For a room
\* with one it emits a single cursor-request carrying the requester's id,
\* addressed to the socket the Directory names and to no other: the
\* requester receives it when it is itself that socket, and nobody receives
\* it when that socket has disconnected.
C18_CursorRequestAddressedToDirectoryHost ==
    [][\A c \in Conns, r \in Rooms :
         CursorRequest(c, r)
         => /\ UNCHANGED relay
            /\ sent' = IF rooms[r] = None THEN NoHostTo(c)
                       ELSE IF status[rooms[r]] = "connected"
                            THEN <<Msg({rooms[r]}, "cursor-request", c, 0)>>
                            ELSE <<>>]_vars

\* A viewer's request has just been delivered to the live host and to
\* nobody else.
C18_Witness ==
    /\ last = "cursor-request"
    /\ \E c \in Conns, r \in Rooms :
          /\ rooms[r] \notin {None, c}
          /\ connectedClients[c] = r
          /\ sent = <<Msg({rooms[r]}, "cursor-request", c, 0)>>

\* ---------------------------------------------------------------- C19
\* C19: a leave or disconnect by a connection that is not the host a room's
\* Directory entry names leaves that entry in place; an entry is removed
\* only by a leave or disconnect of the connection it names.
C19_OnlyHostRemovesHostEntry ==
    [][/\ \A c \in Conns, r \in Rooms :
             (/\ rooms[r] \notin {None, c}
              /\ (Disconnect(c) \/ \E named \in Rooms : Leave(c, named)))
             => rooms'[r] = rooms[r]
       /\ \A r \in Rooms :
             (rooms[r] # None /\ rooms'[r] # rooms[r])
             => (Leave(rooms[r], r) \/ Disconnect(rooms[r]))]_vars

\* An approved viewer has just disconnected from a hosted room: the host is
\* told, and the Directory still names the host.
C19_Witness ==
    /\ last = "disconnect"
    /\ \E c \in Conns, r \in Rooms :
          /\ status[c] = "disconnected"
          /\ rooms[r] \notin {None, c}
          /\ status[rooms[r]] = "connected"
          /\ sent = <<Msg({rooms[r]}, "user-disconnected", c, 0)>>

\* ---------------------------------------------------------------- C20
\* C20: authorization does not survive a host change. Whenever a connection
\* becomes host of a room, that room's Authorization Set is empty, and a
\* connection enters a room's Authorization Set only by an approving
\* cursor-response sent by that room's current host.
C20_AuthorizationNeedsCurrentHost ==
    [][\A r \in Rooms :
         /\ (rooms'[r] # None /\ rooms'[r] # rooms[r])
               => clientsWithCursorAccess'[r] = {}
         /\ \A id \in Conns :
               (id \notin clientsWithCursorAccess[r] /\ id \in clientsWithCursorAccess'[r])
               => (rooms[r] # None /\ CursorResponse(rooms[r], r, id, TRUE))]_vars

\* ---------------------------------------------------------------- C21
\* C21: after the room's host answers cursor-response approved=false for a
\* viewer, that viewer is not in the room's Authorization Set, also when it
\* had been granted access earlier.
C21_DenialRevokes ==
    [][\A c \in Conns, r \in Rooms : \A id \in Conns \ {c} :
         (rooms[r] = c /\ CursorResponse(c, r, id, FALSE))
         => id \notin clientsWithCursorAccess'[r]]_vars

\* ---------------------------------------------------------------- C22
\* C22: every cursor-response the room's current host sends about a live
\* connection is echoed to that connection as exactly one cursor-response
\* message carrying the same approved value, and to nobody else.
C22_DecisionEchoedToViewer ==
    [][\A c \in Conns, r \in Rooms, id \in Conns, approved \in BOOLEAN :
         (rooms[r] = c /\ status[id] = "connected"
            /\ CursorResponse(c, r, id, approved))
         => sent' = <<Msg({id}, "cursor-response", None,
                          IF approved THEN 1 ELSE 0)>>]_vars

\* A viewer of a hosted room that holds no authorization has just been told
\* approved=false.
C22_Witness ==
    /\ last = "cursor-response"
    /\ \E id \in Conns, r \in Rooms :
          /\ rooms[r] \notin {None, id}
          /\ status[rooms[r]] = "connected"
          /\ connectedClients[id] = r
          /\ id \notin clientsWithCursorAccess[r]
          /\ sent = <<Msg({id}, "cursor-response", None, 0)>>

\* ---------------------------------------------------------------- C23
\* C23: no signal envelope is ever delivered to the connection that sent
\* it, neither by the immediate forward nor by the drain on join.
C23_NoSignalBackToSender ==
    [][\A i \in 1..Len(sent') :
         sent'[i].ev = "signal" => sent'[i].id \notin sent'[i].dst]_vars

\* ---------------------------------------------------------------- C25
\* C25: in a room whose only member is its host H, H's signal and the join
\* of a first viewer V may come in either order.  Signal first: the signal
\* reaches nobody and goes to the end of the Mailbox, and V's join then
\* delivers each Mailbox envelope of H to V exactly once and empties the
\* Mailbox.  Join first: V becomes the second member and H's signal then
\* reaches V, exactly once, and is not buffered.
C25_SignalJoinRaceDeliversOnce ==
    [][\A H \in Conns, r \in Rooms : \A V \in Conns \ {H} :
         (rooms[r] = H /\ status[H] = "connected")
         => /\ (members[r] = {H} /\ Signal(H, r))
                  => /\ sent' = <<>>
                     /\ pendingSignals'[r] =
                           Append(pendingSignals[r], [id |-> H, data |-> nextSerial])
                     /\ members' = members /\ rooms' = rooms
            /\ (members[r] = {H} /\ connectedClients[V] # r /\ Join(V, r, FALSE))
                  => /\ members'[r] = {H, V}
                     /\ pendingSignals'[r] = <<>>
                     /\ \A k \in 1..Len(pendingSignals[r]) :
                           pendingSignals[r][k].id = H
                           => Cardinality({i \in 1..Len(sent') :
                                 sent'[i] = Msg({V}, "signal", H,
                                                pendingSignals[r][k].data)}) = 1
            /\ (members[r] = {H, V} /\ Signal(H, r))
                  => /\ sent' = <<Msg({V}, "signal", H, nextSerial)>>
                     /\ pendingSignals' = pendingSignals]_vars

\* Signal first: the first viewer has just joined a room that held only its
\* host and has been handed the host's buffered signal.
C25_Witness ==
    /\ last = "join"
    /\ \E H \in Conns, r \in Rooms : \E V \in Conns \ {H} :
          /\ rooms[r] = H /\ members[r] = {H, V}
          /\ sent = <<Msg({H}, "user-joined", V, 0), Msg({V}, "signal", H, 1)>>
          /\ pendingSignals[r] = <<>>
          /\ drainCount[1] = 1

\* ---------------------------------------------------------------- C26
\* C26: whichever way host H1's leave or disconnect and H2's
\* join(room, isHost=true) interleave, the room ends with H2 as host or with
\* no host: H1's departure removes H1's own entry, a join that finds the
\* room hosted is refused, a join that finds it free makes H2 host (or is
\* ignored), and H1's departure never removes H2's entry.
C26_HostHandoverRace ==
    [][\A H1 \in Conns, r \in Rooms : \A H2 \in Conns \ {H1} :
         /\ (rooms[r] = H1 /\ (Disconnect(H1) \/ Leave(H1, r)))
               => rooms'[r] = None
         /\ (rooms[r] = H1 /\ Join(H2, r, TRUE))
               => rooms'[r] = H1
         /\ (rooms[r] = None /\ Join(H2, r, TRUE))
               => rooms'[r] \in {H2, None}
         /\ (rooms[r] = H2 /\ (Disconnect(H1) \/ \E q \in Rooms : Leave(H1, q)))
               => rooms'[r] = H2]_vars

\* ---------------------------------------------------------------- C27
\* C27: a successful join binds the connection to the room in the Registry,
\* adds it to the room's membership, and delivers user-joined carrying the
\* joiner's identifier exactly once to every other member of the room and
\* not to the joiner.
C27_JoinBindsAndAnnounces ==
    [][\A c \in Conns, r \in Rooms, isHost \in BOOLEAN :
         (/\ connectedClients[c] # r
          /\ isHost <=> rooms[r] = None
          /\ Join(c, r, isHost))
         => /\ connectedClients'[c] = r
            /\ members'[r] = members[r] \cup {c}
            /\ SelectSeq(sent', LAMBDA m : m.ev = "user-joined")
                  = IF members[r] \ {c} = {} THEN <<>>
                    ELSE <<Msg(members[r] \ {c}, "user-joined", c, 0)>>
            /\ \A i \in 1..Len(sent') :
                  sent'[i].ev = "user-joined" => c \notin sent'[i].dst]_vars

\* A viewer has just joined: it is bound to the room and a member of it,
\* and the host, the only other member, was told once.
C27_Witness ==
    /\ last = "join"
    /\ \E c \in Conns, r \in Rooms :
          /\ rooms[r] \notin {None, c}
          /\ connectedClients[c] = r
          /\ members[r] = {c, rooms[r]}
          /\ sent = <<Msg({rooms[r]}, "user-joined", c, 0)>>
          /\ clientsWithCursorAccess[r] = {}

\* ---------------------------------------------------------------- C28
HostGone == {"host-stopped", "user-disconnected"}

\* C28: when a room's host leaves the room or disconnects, every remaining
\* member of the room receives host-stopped or user-disconnected and the
\* departing host receives nothing.
C28_HostDepartureNotifiesMembers ==
    [][\A c \in Conns, r \in Rooms :
         (rooms[r] = c /\ (Disconnect(c) \/ Leave(c, r)))
         => /\ \A d \in members[r] \ {c} :
                  \E i \in 1..Len(sent') : sent'[i].ev \in HostGone /\ d \in sent'[i].dst
            /\ \A i \in 1..Len(sent') : c \notin sent'[i].dst]_vars

\* ---------------------------------------------------------------- C30
\* C30: the identifier the Directory holds as host of a room is a live
\* connection whose Registry binding is that room; hence no connection is
\* host of two rooms.
C30_HostIsLiveAndBoundToItsRoom ==
    /\ \A r \in Rooms :
          rooms[r] # None
          => (status[rooms[r]] = "connected" /\ connectedClients[rooms[r]] = r)
    /\ \A r, q \in Rooms : (rooms[r] # None /\ rooms[r] = rooms[q]) => r = q

\* ---------------------------------------------------------------- C24
\* C24: per-sender order within a room.  Payloads are numbered in the order
\* the relay receives them, so: a Mailbox holds each sender's envelopes in
\* increasing order, and a connection that is handed a sender's envelope by
\* the drain on joining a room has not been forwarded a later envelope of
\* that sender for that room before.
C24_PerSenderOrder ==
    [][/\ \A r \in Rooms : \A i, j \in 1..Len(pendingSignals'[r]) :
            (i < j /\ pendingSignals'[r][i].id = pendingSignals'[r][j].id)
            => pendingSignals'[r][i].data < pendingSignals'[r][j].data
       /\ \A c \in Conns, r \in Rooms :
            Join(c, r, FALSE)
            => \A i \in 1..Len(sent') :
                  (sent'[i].ev = "signal" /\ c \in sent'[i].dst)
                  => \A e \in forwarded[c] :
                        (e.room = r /\ e.id = sent'[i].id)
                        => e.data < sent'[i].data]_vars

\* ---------------------------------------------------------------- C29
\* C29: Left and Disconnected are terminal: a join by a connection that has
\* left a room or disconnected binds nothing and changes no relay state.
C29_NoJoinAfterDeparture ==
    [][\A c \in departed, r \in Rooms, isHost \in BOOLEAN :
         Join(c, r, isHost) => UNCHANGED relay]_vars

\* ---------------------------------------------------------------- C31
\* C31: a leave naming a room the sender is not bound to changes no relay
\* state and emits nothing.
C31_LeaveOfOtherRoomIsNoOp ==
    [][\A c \in Conns, r \in Rooms :
         (connectedClients[c] # r /\ Leave(c, r))
         => (UNCHANGED relay /\ sent' = <<>>)]_vars

\* ---------------------------------------------------------------- C32
\* C32: an authorized input event from a connection other than the room's
\* live host is delivered to that host exactly once, carrying the sender's
\* identifier, and no input event is ever delivered to its own sender.
C32_InputReachesHostOnceTagged ==
    [][\A c \in Conns, r \in Rooms, kind \in MouseEvents :
         (/\ c \in clientsWithCursorAccess[r] /\ connectedClients[c] = r
          /\ Mouse(c, r, kind))
         => /\ \A i \in 1..Len(sent') : c \notin sent'[i].dst
            /\ (rooms[r] \notin {None, c} /\ status[rooms[r]] = "connected")
                  => /\ Cardinality({i \in 1..Len(sent') :
                            rooms[r] \in sent'[i].dst}) = 1
                     /\ \A i \in 1..Len(sent') :
                           rooms[r] \in sent'[i].dst
                           => (sent'[i].ev = kind /\ sent'[i].id = c)]_vars

\* ---------------------------------------------------------------- C34
\* C34: a signal (or, in server.js, an offer, answer or ice-candidate) from
\* a connection that is not a member of the named room is delivered to
\* nobody and leaves every Mailbox as it was.
C34_OnlyMembersSignal ==
    [][\A c \in Conns, r \in Rooms :
         c \notin members[r]
         => /\ Signal(c, r) => (sent' = <<>> /\ pendingSignals' = pendingSignals)
            /\ \A kind \in RelayEvents :
                  Relay(c, r, kind) => sent' = <<>>]_vars

\* ---------------------------------------------------------------- C35
SameSession(c) ==
    /\ connectedClients'[c] = connectedClients[c]
    /\ \A q \in Rooms : (c \in members'[q]) <=> (c \in members[q])
    /\ \A q \in Rooms : (rooms'[q] = c) <=> (rooms[q] = c)
    /\ status'[c] = "connected"

C33_NoInputInHostlessRoom ==
    [][\A c \in Conns, r \in Rooms, kind \in MouseEvents :
         (Mouse(c, r, kind) /\ sent' # <<>>) => rooms[r] # None]_vars

\* ---------------------------------------------------------------- C36
\* C36: every tryConnect that runs as the retry scheduled by a 'no-host'
\* handler, and gets its peer connection, emits a new 'join'.
C36_RetryAfterNoHostJoinsAgain ==
    [][RetryAfterNoHost(TRUE) => client'.joins = client.joins + 1]_vars

\* ---------------------------------------------------------------- C37
\* C37: when startClient found the socket connected, tryConnect runs at most
\* maxRetries + 1 times, whatever 'no-host' replies and timeouts arrive.
C37_AttemptsBounded ==
    (client.started /\ ~client.onConnect) => client.attempts <= client.maxRetries + 1

\* All the attempts are used up, and several 'no-host' handlers and
\* timeouts shared the counter.
C37_Witness ==
    /\ client.started /\ ~client.onConnect
    /\ client.maxRetries = MaxRetries
    /\ client.attempts = client.maxRetries + 1
    /\ client.handlers = client.attempts
    /\ client.retries = client.maxRetries

====
